---- MODULE Spec2Model ----
(***************************************************************************)
(* Model of cmd/main.go of escalator: the start-up path (flag check,       *)
(* credential resolution, node-group config load, validation), the         *)
(* construction of the run options, and the shutdown wiring (signal         *)
(* channel, stop channel, watcher goroutine, metrics endpoint, controller). *)
(* The packages controller, k8s and metrics are collaborators whose code   *)
(* is outside cmd/main.go; they are modelled from their documented          *)
(* contracts.                                                               *)
(***************************************************************************)
EXTENDS Integers, Sequences, FiniteSets, TLC

\* ------------------------------------------------------------------ bounds
MaxGroups == 2      \* longest node-group sequence a config file holds
MaxSignals == 2     \* most SIGINT/SIGTERM deliveries in one run
MaxCountedCycles == 2   \* cyclesAfterClose stops counting here

\* variant: make(chan os.Signal), a channel without a buffer
SignalChanCapUnbuffered == Len(<<>>)

\* make(chan os.Signal, 1)
SignalChanCap == 1

\* ------------------------------------------------------------ input domains
Names == {"", "pool-a"}
Signals == {"SIGINT", "SIGTERM"}
LogLevels == {0 - 1, 0, 2, 5, 6}

\* logrus levels, by number (the --loglevel flag is cast to one of them)
Level == [panic |-> 0, fatal |-> 1, error |-> 2, warn |-> 3, info |-> 4, debug |-> 5]

NodeGroupOptions == [Name : Names, DryMode : BOOLEAN, MinNodes : {1}, MaxNodes : {0, 2}]

RECURSIVE SeqsUpTo(_, _)
SeqsUpTo(S, n) ==
    IF n = 0 THEN {<<>>}
    ELSE LET shorter == SeqsUpTo(S, n - 1)
         IN  shorter \cup {Append(s, x) : s \in {t \in shorter : Len(t) = n - 1}, x \in S}

\* What the --nodegroups path holds: nothing that can be opened, bytes that
\* do not decode, or a document of node-group entries.
ConfigFiles ==
    {[readable |-> FALSE, wellFormed |-> FALSE, entries |-> <<>>],
     [readable |-> TRUE, wellFormed |-> FALSE, entries |-> <<>>]}
    \cup {[readable |-> TRUE, wellFormed |-> TRUE, entries |-> e] :
             e \in SeqsUpTo(NodeGroupOptions, MaxGroups)}

VARIABLES
    flags,          \* the parsed command line: loglevel, kubeConfigFile, drymode, scanInterval
    env,            \* the surroundings: the config file, whether credentials resolve
    pc,             \* position of main
    exit,           \* "none" while the process runs, else how it ended
    logs,           \* records written through logrus, in order
    level,          \* the logger's level
    credCalls,      \* client constructors called, in order
    k8sClient,      \* the client handle main holds
    fileOpens,      \* number of os.Open calls on the config file
    decodes,        \* number of UnmarshalNodeGroupOptions calls
    nodegroups,     \* the decoded sequence main holds
    idx,            \* index of the next node group the validation loop visits
    validated,      \* names handed to ValidateNodeGroup, in call order
    opts,           \* controller.Opts once built
    signalChan,     \* contents of the buffered os.Signal channel (capacity 1)
    notified,       \* signal.Notify has registered signalChan
    stopChan,       \* "none", "open" or "closed"
    closes,         \* number of close(stopChan) executed
    watcher,        \* position of the watcher goroutine
    metrics,        \* state of the metrics endpoint
    driver,         \* state of the controller: phase, opts and stop channel it was given
    delivered,      \* number of signals the OS delivered to the process
    signalMidCycle, \* a signal was delivered while the controller ran a scan cycle
    cyclesAfterClose, \* scan cycles the controller began after stopChan was closed
    stopHolders,    \* the activities that were handed stopChan
    stopWrites      \* the writes performed on stopChan, in order: who and what

vars == <<flags, env, pc, exit, logs, level, credCalls, k8sClient, fileOpens, decodes,
          nodegroups, idx, validated, opts, signalChan, notified, stopChan, closes,
          watcher, metrics, driver, delivered, signalMidCycle, cyclesAfterClose,
          stopHolders, stopWrites>>

stopUse == <<stopHolders, stopWrites>>
startupVars == <<credCalls, k8sClient, fileOpens, decodes, nodegroups, idx, validated, opts>>
lifecycleVars == <<signalChan, notified, stopChan, closes, watcher, metrics, driver,
                   signalMidCycle, cyclesAfterClose, stopHolders, stopWrites>>

None == [none |-> TRUE]

\* ------------------------------------------------------------------ logrus
\* A record is written only when the logger's level admits it.
Log(lg, lvl, at, rec) == IF lvl >= at THEN Append(lg, rec) ELSE lg

Rec(lv, ng, msg, n) == [lv |-> lv, nodegroup |-> ng, msg |-> msg, n |-> n]

\* ------------------------------------------------- collaborators (contracts)
\* controller.ValidateNodeGroup: every rule violation of one spec, the rules
\* checked independently of each other.
ValidateNodeGroup(ng) ==
    (IF ng.Name = "" THEN <<"name">> ELSE <<>>)
    \o (IF ng.MaxNodes < ng.MinNodes THEN <<"max_nodes">> ELSE <<>>)

\* controller.UnmarshalNodeGroupOptions: the whole sequence in document order,
\* or an error and nothing.
UnmarshalNodeGroupOptions(file) ==
    IF file.wellFormed THEN [err |-> FALSE, groups |-> file.entries]
    ELSE [err |-> TRUE, groups |-> <<>>]

\* k8s.NewOutOfClusterClient / k8s.NewInClusterClient: a handle, or a fatal exit.
NewOutOfClusterClient(path) ==
    IF env.credsOK THEN [ok |-> TRUE, handle |-> [mode |-> "out-of-cluster", from |-> path]]
    ELSE [ok |-> FALSE, handle |-> None]

NewInClusterClient ==
    IF env.credsOK THEN [ok |-> TRUE, handle |-> [mode |-> "in-cluster", from |-> ""]]
    ELSE [ok |-> FALSE, handle |-> None]

\* --------------------------------------------------------------------- Init
Init ==
    /\ flags \in [loglevel : LogLevels, kubeConfigFile : {"", "kube.yaml"},
                  drymode : BOOLEAN, scanInterval : {"60s"}]
    /\ env \in [credsOK : BOOLEAN, file : ConfigFiles]
    /\ pc = "loglevel"
    /\ exit = "none"
    /\ logs = <<>>
    /\ level = Level.info
    /\ credCalls = <<>>
    /\ k8sClient = None
    /\ fileOpens = 0
    /\ decodes = 0
    /\ nodegroups = <<>>
    /\ idx = 1
    /\ validated = <<>>
    /\ opts = None
    /\ signalChan = <<>>
    /\ notified = FALSE
    /\ stopChan = "none"
    /\ closes = 0
    /\ watcher = "none"
    /\ metrics = "none"
    /\ driver = [phase |-> "none", opts |-> None, stop |-> "none", seen |-> 0]
    /\ delivered = 0
    /\ signalMidCycle = FALSE
    /\ cyclesAfterClose = 0
    /\ stopHolders = {}
    /\ stopWrites = <<>>

\* main.go 31: the range check on --loglevel
InvalidLogLevelOffByOne(l) == l < 0 \/ l > 6

InvalidLogLevel(l) == l < 0 \/ l > 5

\* main.go 49: os.Open returned an error
OpenFailedIgnored(file) == FALSE

OpenFailed(file) == ~file.readable

\* main.go 53: the decoder returned an error
DecodeFailedIgnored(res) == FALSE

DecodeFailed(res) == res.err

\* main.go 60: the validator found something
ValidationFailedOffByOne(errs) == Len(errs) > 1

ValidationFailed(errs) == Len(errs) > 0

\* log.Fatalf: the record (if the level admits it), then os.Exit(1).
Fatalf(rec) ==
    /\ logs' = Log(logs, level, Level.fatal, rec)
    /\ exit' = "fatal"
    /\ pc' = "exited"

\* ------------------------------------------------------------ main, start-up
\* main.go 31-35
CheckLogLevel ==
    /\ pc = "loglevel" /\ exit = "none"
    /\ IF InvalidLogLevel(flags.loglevel)
       THEN /\ Fatalf(Rec("fatal", "", "Invalid log level", flags.loglevel))
            /\ UNCHANGED level
       ELSE /\ level' = flags.loglevel
            /\ logs' = Log(logs, level', Level.info, Rec("info", "", "Starting with log level", level'))
            /\ pc' = "credentials"
            /\ UNCHANGED exit
    /\ UNCHANGED <<flags, env, delivered>>
    /\ UNCHANGED startupVars
    /\ UNCHANGED lifecycleVars

\* main.go 39: the choice of the credential mode (the flag pointer is never nil)
UseOutOfClusterAlways(path) == TRUE

UseOutOfCluster(path) == Len(path) > 0

\* main.go 37-45
ResolveCredentials ==
    /\ pc = "credentials" /\ exit = "none"
    /\ LET out == UseOutOfCluster(flags.kubeConfigFile)
           res == IF out THEN NewOutOfClusterClient(flags.kubeConfigFile)
                  ELSE NewInClusterClient
           announced == Log(logs, level, Level.info,
                            Rec("info", "", IF out THEN "Using out of cluster config"
                                            ELSE "Using in cluster config", 0))
       IN  /\ credCalls' = Append(credCalls, IF out THEN "NewOutOfClusterClient"
                                             ELSE "NewInClusterClient")
           /\ IF res.ok
              THEN /\ k8sClient' = res.handle
                   /\ logs' = announced
                   /\ pc' = "open"
                   /\ UNCHANGED exit
              ELSE /\ k8sClient' = k8sClient
                   /\ logs' = Log(announced, level, Level.fatal,
                                  Rec("fatal", "", "credential resolution failed", 0))
                   /\ exit' = "fatal"
                   /\ pc' = "exited"
    /\ UNCHANGED <<flags, env, level, delivered>>
    /\ UNCHANGED <<fileOpens, decodes, nodegroups, idx, validated, opts>>
    /\ UNCHANGED lifecycleVars

\* main.go 48-51
OpenConfig ==
    /\ pc = "open" /\ exit = "none"
    /\ fileOpens' = fileOpens + 1
    /\ IF OpenFailed(env.file)
       THEN Fatalf(Rec("fatal", "", "Failed to open configFile", 0))
       ELSE pc' = "decode" /\ UNCHANGED <<logs, exit>>
    /\ UNCHANGED <<flags, env, level, delivered>>
    /\ UNCHANGED <<credCalls, k8sClient, decodes, nodegroups, idx, validated, opts>>
    /\ UNCHANGED lifecycleVars

\* main.go 52-55
DecodeConfig ==
    /\ pc = "decode" /\ exit = "none"
    /\ decodes' = decodes + 1
    /\ LET res == UnmarshalNodeGroupOptions(env.file)
       IN  IF DecodeFailed(res)
           THEN /\ Fatalf(Rec("fatal", "", "Failed to decode configFile", 0))
                /\ UNCHANGED nodegroups
           ELSE /\ nodegroups' = res.groups
                /\ pc' = "validate"
                /\ UNCHANGED <<logs, exit>>
    /\ UNCHANGED <<flags, env, level, delivered>>
    /\ UNCHANGED <<credCalls, k8sClient, fileOpens, idx, validated, opts>>
    /\ UNCHANGED lifecycleVars

\* variant: the error loop stops after the first error
LogEachFirstOnly(lg, lvl, errs) ==
    IF errs = <<>> THEN lg
    ELSE Log(lg, lvl, Level.error, Rec("error", "", "failed check", Head(errs)))

\* main.go 68: the dry mode a node group is registered with
EffectiveDryModeOwnOnly(nodegroup, drymode) == nodegroup.DryMode

EffectiveDryMode(nodegroup, drymode) == nodegroup.DryMode \/ drymode

\* controller: a node group runs dry when its own flag or the options' override says so
DriverDryMode(o, i) == o.NodeGroups[i].DryMode \/ o.DryMode

RECURSIVE LogEach(_, _, _)
\* main.go 62-64: one "failed check" record per error
LogEach(lg, lvl, errs) ==
    IF errs = <<>> THEN lg
    ELSE LogEach(Log(lg, lvl, Level.error, Rec("error", "", "failed check", Head(errs))),
                 lvl, Tail(errs))

\* main.go 58-69: one iteration of the validation loop, or its end
ValidateNext ==
    /\ pc = "validate" /\ exit = "none"
    /\ IF idx > Len(nodegroups)
       THEN /\ pc' = "opts"
            /\ UNCHANGED <<logs, exit, idx, validated>>
       ELSE LET nodegroup == nodegroups[idx]
                errs == ValidateNodeGroup(nodegroup)
            IN  /\ validated' = Append(validated, nodegroup.Name)
                /\ IF ValidationFailed(errs)
                   THEN /\ logs' = Log(LogEach(Log(logs, level, Level.error,
                                                   Rec("error", nodegroup.Name,
                                                       "Validating options: [FAIL]", 0)),
                                               level, errs),
                                       level, Level.fatal,
                                       Rec("fatal", nodegroup.Name, "problems", Len(errs)))
                        /\ exit' = "fatal"
                        /\ pc' = "exited"
                        /\ UNCHANGED idx
                   ELSE /\ logs' = Log(Log(logs, level, Level.info,
                                           Rec("info", nodegroup.Name,
                                               "Validating options: [PASS]", 0)),
                                       level, Level.info,
                                       Rec("info", nodegroup.Name, "Registered with drymode",
                                           IF EffectiveDryMode(nodegroup, flags.drymode) THEN 1 ELSE 0))
                        /\ idx' = idx + 1
                        /\ UNCHANGED <<pc, exit>>
    /\ UNCHANGED <<flags, env, level, delivered>>
    /\ UNCHANGED <<credCalls, k8sClient, fileOpens, decodes, nodegroups, opts>>
    /\ UNCHANGED lifecycleVars

\* --------------------------------------------------- main, run options
\* variant: the effective dry mode is written back into the specs handed on
BuildOptsForcedDry ==
    /\ pc = "opts" /\ exit = "none"
    /\ opts' = [ScanInterval |-> flags.scanInterval,
                K8SClient |-> k8sClient,
                NodeGroups |-> [i \in DOMAIN nodegroups |->
                                   [nodegroups[i] EXCEPT !.DryMode = @ \/ flags.drymode]],
                DryMode |-> flags.drymode]
    /\ pc' = "chans"
    /\ UNCHANGED <<flags, env, exit, logs, level, delivered>>
    /\ UNCHANGED <<credCalls, k8sClient, fileOpens, decodes, nodegroups, idx, validated>>
    /\ UNCHANGED lifecycleVars

\* main.go 71-76
BuildOpts ==
    /\ pc = "opts" /\ exit = "none"
    /\ opts' = [ScanInterval |-> flags.scanInterval,
                K8SClient |-> k8sClient,
                NodeGroups |-> nodegroups,
                DryMode |-> flags.drymode]
    /\ pc' = "chans"
    /\ UNCHANGED <<flags, env, exit, logs, level, delivered>>
    /\ UNCHANGED <<credCalls, k8sClient, fileOpens, decodes, nodegroups, idx, validated>>
    /\ UNCHANGED lifecycleVars

\* ------------------------------------------------------- main, lifecycle
\* main.go 79-81
MakeChannels ==
    /\ pc = "chans" /\ exit = "none"
    /\ signalChan' = <<>>
    /\ stopChan' = "open"
    /\ pc' = "notify"
    /\ UNCHANGED <<flags, env, exit, logs, level, delivered>>
    /\ UNCHANGED startupVars
    /\ UNCHANGED <<notified, closes, watcher, metrics, driver, signalMidCycle, cyclesAfterClose>>
    /\ UNCHANGED stopUse

\* main.go 84
NotifySignals ==
    /\ pc = "notify" /\ exit = "none"
    /\ notified' = TRUE
    /\ pc' = "go"
    /\ UNCHANGED <<flags, env, exit, logs, level, delivered>>
    /\ UNCHANGED startupVars
    /\ UNCHANGED <<signalChan, stopChan, closes, watcher, metrics, driver, signalMidCycle,
                   cyclesAfterClose>>
    /\ UNCHANGED stopUse

\* main.go 85, 90: the go statement
SpawnWatcher ==
    /\ pc = "go" /\ exit = "none"
    /\ watcher' = "recv"
    /\ pc' = "metrics"
    /\ UNCHANGED <<flags, env, exit, logs, level, delivered>>
    /\ UNCHANGED startupVars
    /\ UNCHANGED <<signalChan, notified, stopChan, closes, metrics, driver, signalMidCycle,
                   cyclesAfterClose>>
    /\ stopHolders' = stopHolders \cup {"watcher"}
    /\ UNCHANGED stopWrites

\* metrics.Start: the endpoint is launched as an activity of its own; the
\* launch may fail (the address cannot be bound), and the call returns either way.
MetricsLaunchOutcomes == {"serving", "failed"}

\* variant: main treats a failed launch of the endpoint as fatal
MetricsStartFatal ==
    /\ pc = "metrics" /\ exit = "none"
    /\ \E outcome \in MetricsLaunchOutcomes :
          /\ metrics' = outcome
          /\ IF outcome = "failed"
             THEN Fatalf(Rec("fatal", "", "metrics endpoint failed", 0))
             ELSE pc' = "controller" /\ UNCHANGED <<logs, exit>>
    /\ UNCHANGED <<flags, env, level, delivered>>
    /\ UNCHANGED startupVars
    /\ UNCHANGED <<signalChan, notified, stopChan, closes, watcher, driver, signalMidCycle,
                   cyclesAfterClose>>
    /\ UNCHANGED stopUse

\* main.go 92
MetricsStart ==
    /\ pc = "metrics" /\ exit = "none"
    /\ \E outcome \in MetricsLaunchOutcomes :
          /\ metrics' = outcome
          /\ logs' = IF outcome = "failed"
                     THEN Log(logs, level, Level.error, Rec("error", "", "metrics endpoint failed", 0))
                     ELSE logs
    /\ pc' = "controller"
    /\ UNCHANGED <<flags, env, exit, level, delivered>>
    /\ UNCHANGED startupVars
    /\ UNCHANGED <<signalChan, notified, stopChan, closes, watcher, driver, signalMidCycle,
                   cyclesAfterClose>>
    /\ UNCHANGED stopUse

\* variant: the controller is given a channel of its own, not stopChan
NewControllerOtherChan ==
    /\ pc = "controller" /\ exit = "none"
    /\ driver' = [phase |-> "constructed", opts |-> opts, stop |-> "other", seen |-> 0]
    /\ pc' = "run"
    /\ UNCHANGED <<flags, env, exit, logs, level, delivered>>
    /\ UNCHANGED startupVars
    /\ UNCHANGED <<signalChan, notified, stopChan, closes, watcher, metrics, signalMidCycle,
                   cyclesAfterClose>>
    /\ UNCHANGED stopUse

\* main.go 94
NewController ==
    /\ pc = "controller" /\ exit = "none"
    /\ driver' = [phase |-> "constructed", opts |-> opts, stop |-> "stopChan", seen |-> 0]
    /\ pc' = "run"
    /\ UNCHANGED <<flags, env, exit, logs, level, delivered>>
    /\ UNCHANGED startupVars
    /\ UNCHANGED <<signalChan, notified, stopChan, closes, watcher, metrics, signalMidCycle,
                   cyclesAfterClose>>
    /\ stopHolders' = stopHolders \cup {"driver"}
    /\ UNCHANGED stopWrites

\* main.go 95: the call of RunForever(true); the first scan cycle starts at once
RunForever ==
    /\ pc = "run" /\ exit = "none"
    /\ driver' = [driver EXCEPT !.phase = "cycle"]
    /\ cyclesAfterClose' = IF stopChan = "closed" /\ cyclesAfterClose < MaxCountedCycles
                            THEN cyclesAfterClose + 1 ELSE cyclesAfterClose
    /\ pc' = "running"
    /\ UNCHANGED <<flags, env, exit, logs, level, delivered>>
    /\ UNCHANGED startupVars
    /\ UNCHANGED <<signalChan, notified, stopChan, closes, watcher, metrics, signalMidCycle>>
    /\ UNCHANGED stopUse

\* variant: main closes stopChan itself when RunForever has returned (a deferred close)
MainReturnCloses ==
    /\ pc = "running" /\ exit = "none"
    /\ driver.phase = "returned"
    /\ stopWrites' = Append(stopWrites, [by |-> "main", op |-> "close"])
    /\ closes' = closes + 1
    /\ exit' = IF stopChan = "closed" THEN "panic" ELSE "return"
    /\ pc' = "exited"
    /\ UNCHANGED <<flags, env, logs, level, delivered>>
    /\ UNCHANGED startupVars
    /\ UNCHANGED <<signalChan, notified, stopChan, watcher, metrics, driver, signalMidCycle,
                   cyclesAfterClose, stopHolders>>

\* variant: main does not wait for RunForever (the call made with go)
MainReturnEarly ==
    /\ pc = "running" /\ exit = "none"
    /\ exit' = "return"
    /\ pc' = "exited"
    /\ UNCHANGED <<flags, env, logs, level, delivered>>
    /\ UNCHANGED startupVars
    /\ UNCHANGED lifecycleVars

\* main.go 95-96: RunForever has returned, main returns, the process exits 0
MainReturn ==
    /\ pc = "running" /\ exit = "none"
    /\ driver.phase = "returned"
    /\ exit' = "return"
    /\ pc' = "exited"
    /\ UNCHANGED <<flags, env, logs, level, delivered>>
    /\ UNCHANGED startupVars
    /\ UNCHANGED lifecycleVars

\* ------------------------------------------------------ controller (contract)
\* A scan cycle ends; the controller goes on to look at the stop channel.
DriverCycleEnd ==
    /\ exit = "none" /\ driver.phase = "cycle"
    /\ driver' = [driver EXCEPT !.phase = "check"]
    /\ UNCHANGED <<flags, env, pc, exit, logs, level, delivered>>
    /\ UNCHANGED startupVars
    /\ UNCHANGED <<signalChan, notified, stopChan, closes, watcher, metrics, signalMidCycle,
                   cyclesAfterClose>>
    /\ UNCHANGED stopUse

\* Once per cycle the controller checks the stop channel: closed, it returns;
\* open, it waits for the scan interval.
DriverCheckStop ==
    /\ exit = "none" /\ driver.phase = "check"
    /\ driver' = IF driver.stop = "stopChan" /\ stopChan = "closed"
                  THEN [driver EXCEPT !.phase = "returned", !.seen = @ + 1]
                  ELSE [driver EXCEPT !.phase = "wait"]
    /\ UNCHANGED <<flags, env, pc, exit, logs, level, delivered>>
    /\ UNCHANGED startupVars
    /\ UNCHANGED <<signalChan, notified, stopChan, closes, watcher, metrics, signalMidCycle,
                   cyclesAfterClose>>
    /\ UNCHANGED stopUse

\* The scan interval elapses and the next cycle begins.
DriverTick ==
    /\ exit = "none" /\ driver.phase = "wait"
    /\ driver' = [driver EXCEPT !.phase = "cycle"]
    /\ cyclesAfterClose' = IF stopChan = "closed" /\ cyclesAfterClose < MaxCountedCycles
                            THEN cyclesAfterClose + 1 ELSE cyclesAfterClose
    /\ UNCHANGED <<flags, env, pc, exit, logs, level, delivered>>
    /\ UNCHANGED startupVars
    /\ UNCHANGED <<signalChan, notified, stopChan, closes, watcher, metrics, signalMidCycle>>
    /\ UNCHANGED stopUse

\* ------------------------------------------------------- watcher goroutine
\* variant: the watcher goes on without a signal (a receive with a default case)
WatcherRecvNoWait ==
    /\ exit = "none" /\ watcher = "recv"
    /\ logs' = Log(logs, level, Level.info, Rec("info", "", "Stopping autoscaler gracefully", 0))
    /\ signalChan' = IF Len(signalChan) > 0 THEN Tail(signalChan) ELSE signalChan
    /\ watcher' = "close"
    /\ UNCHANGED <<flags, env, pc, exit, level, delivered>>
    /\ UNCHANGED startupVars
    /\ UNCHANGED <<notified, stopChan, closes, metrics, driver, signalMidCycle, cyclesAfterClose>>
    /\ UNCHANGED stopUse

\* main.go 86-88
WatcherRecv ==
    /\ exit = "none" /\ watcher = "recv"
    /\ Len(signalChan) > 0
    /\ LET sig == Head(signalChan)
       IN  logs' = Log(Log(logs, level, Level.info, Rec("info", "", "Signal received", sig)),
                       level, Level.info, Rec("info", "", "Stopping autoscaler gracefully", 0))
    /\ signalChan' = Tail(signalChan)
    /\ watcher' = "close"
    /\ UNCHANGED <<flags, env, pc, exit, level, delivered>>
    /\ UNCHANGED startupVars
    /\ UNCHANGED <<notified, stopChan, closes, metrics, driver, signalMidCycle, cyclesAfterClose>>
    /\ UNCHANGED stopUse

\* variant: the watcher loops, closing on every signal it receives
WatcherCloseLoops ==
    /\ exit = "none" /\ watcher = "close"
    /\ closes' = closes + 1
    /\ IF stopChan = "closed"
       THEN exit' = "panic" /\ pc' = "exited" /\ UNCHANGED <<stopChan, watcher>>
       ELSE stopChan' = "closed" /\ watcher' = "recv" /\ UNCHANGED <<exit, pc>>
    /\ UNCHANGED <<flags, env, logs, level, delivered>>
    /\ UNCHANGED startupVars
    /\ UNCHANGED <<signalChan, notified, metrics, driver, signalMidCycle, cyclesAfterClose>>
    /\ stopWrites' = Append(stopWrites, [by |-> "watcher", op |-> "close"])
    /\ UNCHANGED stopHolders

\* variant: the watcher returns without closing stopChan
WatcherCloseSkipped ==
    /\ exit = "none" /\ watcher = "close"
    /\ watcher' = "done"
    /\ UNCHANGED <<flags, env, pc, exit, logs, level, delivered>>
    /\ UNCHANGED startupVars
    /\ UNCHANGED <<signalChan, notified, stopChan, closes, metrics, driver, signalMidCycle,
                   cyclesAfterClose>>
    /\ UNCHANGED stopUse

\* main.go 89-90: close(stopChan); closing a closed channel panics
WatcherClose ==
    /\ exit = "none" /\ watcher = "close"
    /\ closes' = closes + 1
    /\ IF stopChan = "closed"
       THEN exit' = "panic" /\ pc' = "exited" /\ UNCHANGED <<stopChan, watcher>>
       ELSE stopChan' = "closed" /\ watcher' = "done" /\ UNCHANGED <<exit, pc>>
    /\ UNCHANGED <<flags, env, logs, level, delivered>>
    /\ UNCHANGED startupVars
    /\ UNCHANGED <<signalChan, notified, metrics, driver, signalMidCycle, cyclesAfterClose>>
    /\ stopWrites' = Append(stopWrites, [by |-> "watcher", op |-> "close"])
    /\ UNCHANGED stopHolders

\* ------------------------------------------------------------- environment
\* The OS delivers SIGINT or SIGTERM. Before signal.Notify the default
\* disposition ends the process; after it the runtime sends on signalChan
\* without blocking, dropping the signal when the buffer is full.
DeliverSignal ==
    /\ exit = "none" /\ delivered < MaxSignals
    /\ \E sig \in Signals :
          /\ delivered' = delivered + 1
          /\ IF ~notified
             THEN exit' = "killed" /\ pc' = "exited" /\ UNCHANGED signalChan
             ELSE /\ signalChan' = IF Len(signalChan) < SignalChanCap
                                   THEN Append(signalChan, sig) ELSE signalChan
                  /\ UNCHANGED <<exit, pc>>
    /\ signalMidCycle' = (signalMidCycle \/ driver.phase = "cycle")
    /\ UNCHANGED <<flags, env, logs, level>>
    /\ UNCHANGED startupVars
    /\ UNCHANGED <<notified, stopChan, closes, watcher, metrics, driver, cyclesAfterClose>>
    /\ UNCHANGED stopUse

\* The metrics endpoint fails while serving; the failure is reported.
MetricsFault ==
    /\ exit = "none" /\ metrics = "serving"
    /\ metrics' = "failed"
    /\ logs' = Log(logs, level, Level.error, Rec("error", "", "metrics endpoint failed", 0))
    /\ UNCHANGED <<flags, env, pc, exit, level, delivered>>
    /\ UNCHANGED startupVars
    /\ UNCHANGED <<signalChan, notified, stopChan, closes, watcher, driver, signalMidCycle,
                   cyclesAfterClose>>
    /\ UNCHANGED stopUse

\* ExitCode: the status the parent observes
ExitCode == IF exit = "return" THEN 0 ELSE IF exit = "fatal" THEN 1 ELSE 2

MainNext ==
    \/ CheckLogLevel
    \/ ResolveCredentials
    \/ OpenConfig
    \/ DecodeConfig
    \/ ValidateNext
    \/ BuildOpts
    \/ MakeChannels
    \/ NotifySignals
    \/ SpawnWatcher
    \/ MetricsStart
    \/ NewController
    \/ RunForever
    \/ MainReturn

WatcherNext == WatcherRecv \/ WatcherClose

DriverNext == DriverCycleEnd \/ DriverCheckStop \/ DriverTick

Next ==
    \/ CheckLogLevel
    \/ ResolveCredentials
    \/ OpenConfig
    \/ DecodeConfig
    \/ ValidateNext
    \/ BuildOpts
    \/ MakeChannels
    \/ NotifySignals
    \/ SpawnWatcher
    \/ MetricsStart
    \/ NewController
    \/ RunForever
    \/ MainReturn
    \/ DriverCycleEnd
    \/ DriverCheckStop
    \/ DriverTick
    \/ WatcherRecv
    \/ WatcherClose
    \/ DeliverSignal
    \/ MetricsFault

Spec == Init /\ [][Next]_vars

\* The Go scheduler runs every runnable goroutine: main, the watcher and the
\* controller each keep taking their steps. Signals and metrics faults are
\* left to the environment.
FairSpec == Spec /\ WF_vars(MainNext) /\ WF_vars(WatcherNext) /\ WF_vars(DriverNext)

\* ================================================================= claims
Entries == env.file.entries
Offending == {i \in DOMAIN Entries : ValidateNodeGroup(Entries[i]) # <<>>}
NamesOf(gs) == [i \in DOMAIN gs |-> gs[i].Name]
FirstOffending == CHOOSE i \in Offending : \A j \in Offending : i <= j
StoppedInValidation == exit = "fatal" /\ validated # <<>>

RECURSIVE SumErrs(_)
SumErrs(gs) == IF gs = <<>> THEN 0 ELSE Len(ValidateNodeGroup(Head(gs))) + SumErrs(Tail(gs))

RECURSIVE Reported(_)
\* the error count the fatal validation records report, summed over the log
Reported(lg) ==
    IF lg = <<>> THEN 0
    ELSE (IF Head(lg).lv = "fatal" /\ Head(lg).msg = "problems" THEN Head(lg).n ELSE 0)
         + Reported(Tail(lg))

\* C1: the Driver (NewController / RunForever) is invoked only after the
\* Validator has been run on every spec of the sequence and found no error in
\* any of them; with an error in any spec the Driver is never invoked and the
\* process does not end with status 0.
C1_DriverOnlyAfterValidation ==
    /\ driver.phase # "none" =>
          /\ validated = NamesOf(Entries)
          /\ idx > Len(Entries)
          /\ Offending = {}
    /\ Offending # {} =>
          /\ driver.phase = "none"
          /\ pc \notin {"opts", "chans", "notify", "go", "metrics", "controller", "run", "running"}
          /\ exit # "none" => ExitCode # 0

C1_Witness ==
    /\ driver.phase = "cycle"
    /\ Len(validated) >= 2

\* C2 as stated: whenever validation ends the process, the Validator was run
\* once on every spec, every offending group has a record under its name in
\* the log, and the reported count is the sum of the per-spec counts.
C2_AllOffendersReported ==
    (StoppedInValidation /\ level >= Level.error) =>
        /\ Len(validated) = Len(Entries)
        /\ \A i \in Offending :
              \E j \in DOMAIN logs : /\ logs[j].nodegroup = Entries[i].Name
                                     /\ logs[j].lv \in {"error", "fatal"}
        /\ Reported(logs) = SumErrs(Entries)

\* C2, amended: validation stops at the first offending group in document
\* order. The Validator has then been run once on each spec up to and
\* including that group and on none after it; the log ends with that group's
\* records alone (its FAIL record under its name, one record per error, the
\* fatal record under its name carrying that group's error count), as far as
\* the log level admits them; the reported count is that group's count. When
\* no group offends the Validator is run once per spec, in document order.
C2_FirstOffenderReported ==
    /\ StoppedInValidation =>
          /\ Offending # {}
          /\ LET k == FirstOffending
                 errs == ValidateNodeGroup(Entries[k])
                 n == Len(errs)
                 last == Len(logs)
             IN  /\ validated = SubSeq(NamesOf(Entries), 1, k)
                 /\ level >= Level.fatal =>
                       /\ last >= 1
                       /\ logs[last] = Rec("fatal", Entries[k].Name, "problems", n)
                       /\ Reported(logs) = n
                 /\ level >= Level.error =>
                       /\ last >= n + 2
                       /\ logs[last - n - 1] =
                             Rec("error", Entries[k].Name, "Validating options: [FAIL]", 0)
                       /\ \A e \in 1..n :
                             logs[last - n - 1 + e] = Rec("error", "", "failed check", errs[e])
                       /\ \A j \in DOMAIN logs :
                             logs[j].lv \in {"error", "fatal"} => j >= last - n - 1
    /\ (pc \notin {"loglevel", "credentials", "open", "decode", "validate", "exited"}) =>
          validated = NamesOf(Entries)

C2_Witness ==
    /\ StoppedInValidation
    /\ level >= Level.error
    /\ Cardinality(Offending) >= 2
    /\ Len(ValidateNodeGroup(Entries[FirstOffending])) = 2

\* C3: stopChan goes from open to closed at most once and is never reopened;
\* no execution closes it a second time (no panic), and a signal delivered
\* once it is closed changes neither the channel nor the number of closes.
C3_StopClosedOnce ==
    /\ [](closes <= 1 /\ exit # "panic" /\ (stopChan = "closed" <=> closes = 1))
    /\ [][stopChan = "closed" => (stopChan' = "closed" /\ closes' = closes)]_vars
    /\ [][stopChan # "none" => stopChan' # "none"]_vars

C3_Witness ==
    /\ stopChan = "closed"
    /\ delivered >= 2
    /\ watcher = "done"

\* C4: a signal delivered while the Driver runs a scan cycle leads, with main,
\* the watcher and the Driver scheduled fairly, to stopChan closed, RunForever
\* returned and the process ended with status 0; the Driver begins at most one
\* scan cycle after the close.
C4_SignalMidCycleLeadsToExit0 ==
    /\ signalMidCycle ~> (stopChan = "closed" /\ driver.phase = "returned"
                          /\ exit = "return" /\ ExitCode = 0)
    /\ [](cyclesAfterClose <= 1)

C4_Witness ==
    /\ signalMidCycle
    /\ exit = "return"
    /\ cyclesAfterClose = 1

\* C5: the process ends with status 0 only after RunForever was invoked and
\* returned; every earlier end of the process has a nonzero status.
C5_Exit0OnlyAfterDriverReturn ==
    /\ (exit # "none" /\ ExitCode = 0) => (driver.phase = "returned" /\ pc = "exited")
    /\ (exit # "none" /\ driver.phase # "returned") => ExitCode # 0

C5_Witness ==
    /\ exit = "return"
    /\ driver.phase = "returned"

\* C6: the process ends with status 0 only when a SIGINT or SIGTERM was
\* received by the watcher and stopChan was closed before the exit.
C6_Exit0OnlyAfterSignal ==
    (exit # "none" /\ ExitCode = 0) =>
        /\ delivered >= 1
        /\ watcher = "done"
        /\ stopChan = "closed"
        /\ level >= Level.info =>
              \E j \in DOMAIN logs : /\ logs[j].msg = "Signal received"
                                     /\ logs[j].n \in Signals

C6_Witness ==
    /\ exit = "return"
    /\ delivered = 1

\* C7: with --loglevel outside 0..5 neither client constructor is called and
\* the config file is neither opened nor decoded; main goes from the level
\* check straight to its fatal exit.
C7_BadLogLevelStopsFirst ==
    (flags.loglevel < 0 \/ flags.loglevel > 5) =>
        /\ credCalls = <<>>
        /\ k8sClient = None
        /\ fileOpens = 0
        /\ decodes = 0
        /\ pc \in {"loglevel", "exited"}
        /\ exit \in {"none", "fatal", "killed"}
        /\ exit = "fatal" => ExitCode # 0

C7_Witness ==
    /\ flags.loglevel > 5
    /\ exit = "fatal"

FatalStartupCondition ==
    \/ flags.loglevel < 0 \/ flags.loglevel > 5
    \/ ~env.file.readable
    \/ ~env.file.wellFormed
    \/ Offending # {}

\* C8: on each fatal start-up condition (log level out of range, config file
\* that cannot be opened, config that does not decode, validation errors) the
\* process ends with a nonzero status and the watcher, the metrics endpoint
\* and the Driver were never started, nor the channels made or registered.
C8_NoPartialStartup ==
    /\ (FatalStartupCondition \/ exit = "fatal") =>
          /\ watcher = "none"
          /\ metrics = "none"
          /\ driver.phase = "none"
          /\ ~notified
          /\ exit # "none" => ExitCode # 0
    /\ (FatalStartupCondition /\ env.credsOK /\ pc = "exited" /\ delivered = 0) => exit = "fatal"

C8_Witness ==
    /\ exit = "fatal"
    /\ ~env.file.wellFormed
    /\ decodes = 1

\* C9: a failure of the metrics endpoint, at launch or later, leaves stopChan
\* open unless a signal was received, does not end the process, and the
\* Driver is still started and runs until the stop channel is closed.
C9_MetricsFaultIsolated ==
    /\ [](metrics = "failed" =>
             /\ (delivered = 0 => stopChan = "open")
             /\ (stopChan = "closed" <=> watcher = "done")
             /\ exit \in {"none", "return"}
             /\ (exit = "return" => stopChan = "closed")
             /\ (stopChan = "open" => driver.phase # "returned"))
    /\ (metrics = "failed") ~> (driver.phase # "none")
    /\ [][(metrics # "failed" /\ metrics' = "failed") =>
             UNCHANGED <<stopChan, closes, exit, driver, watcher, signalChan>>]_vars

C9_Witness ==
    /\ metrics = "failed"
    /\ driver.phase = "wait"
    /\ stopChan = "open"

\* C10: the Driver is handed exactly the sequence the Loader returned: same
\* elements in document order, none added, dropped, reordered or modified.
C10_OptsNodeGroupsVerbatim ==
    /\ opts # None => opts.NodeGroups = UnmarshalNodeGroupOptions(env.file).groups
    /\ driver.phase # "none" =>
          /\ driver.opts.NodeGroups = UnmarshalNodeGroupOptions(env.file).groups
          /\ driver.opts.NodeGroups = Entries
          /\ Offending = {}

C10_Witness ==
    /\ driver.phase = "cycle"
    /\ Len(driver.opts.NodeGroups) = 2
    /\ driver.opts.NodeGroups[1] # driver.opts.NodeGroups[2]
    /\ flags.drymode /\ ~driver.opts.NodeGroups[1].DryMode

\* C11: one credential mode is used per run and the client handle is made
\* once: NewOutOfClusterClient if and only if --kubeconfig is given and
\* non-empty, NewInClusterClient otherwise; the handle that call returned is
\* the one main holds, the one in the run options and the one the Driver gets.
C11_OneCredentialMode ==
    /\ Len(credCalls) <= 1
    /\ pc \notin {"loglevel", "credentials", "exited"} => Len(credCalls) = 1
    /\ credCalls # <<>> =>
          (credCalls[1] = "NewOutOfClusterClient" <=> flags.kubeConfigFile # "")
    /\ credCalls # <<>> =>
          (credCalls[1] = "NewInClusterClient" <=> flags.kubeConfigFile = "")
    /\ k8sClient # None =>
          /\ k8sClient.mode = (IF flags.kubeConfigFile # "" THEN "out-of-cluster" ELSE "in-cluster")
          /\ k8sClient.from = flags.kubeConfigFile
    /\ opts # None => (opts.K8SClient = k8sClient /\ k8sClient # None)
    /\ driver.phase # "none" => driver.opts.K8SClient = k8sClient

C11_Witness ==
    /\ driver.phase = "cycle"
    /\ flags.kubeConfigFile = ""
    /\ credCalls = <<"NewInClusterClient">>

Registrations == SelectSeq(logs, LAMBDA r : r.msg = "Registered with drymode")

\* C12: every node group's effective dry mode is its own dryMode OR the
\* global --drymode flag: that is the value each validated group is
\* registered with, in document order, and the value the Driver arrives at
\* from the run options, whose override is the global flag unchanged.
C12_EffectiveDryMode ==
    /\ level >= Level.info =>
          /\ Len(Registrations) = idx - 1
          /\ \A i \in DOMAIN Registrations :
                /\ Registrations[i].nodegroup = Entries[i].Name
                /\ Registrations[i].n = 1 <=> (Entries[i].DryMode \/ flags.drymode)
    /\ opts # None => opts.DryMode = flags.drymode
    /\ driver.phase # "none" =>
          /\ driver.opts.DryMode = flags.drymode
          /\ \A i \in DOMAIN Entries :
                DriverDryMode(driver.opts, i) <=> (Entries[i].DryMode \/ flags.drymode)

C12_Witness ==
    /\ driver.phase = "cycle"
    /\ flags.drymode
    /\ level >= Level.info
    /\ Len(Entries) = 2
    /\ ~Entries[1].DryMode /\ Entries[2].DryMode
    /\ Registrations[1].n = 1

Activities == {"watcher", "metrics", "driver"}

\* how often an activity has seen the stop channel go from open to closed:
\* the watcher by closing it, the Driver by its stop check; an activity that
\* was never handed the channel has no way to see it
Observations(a) ==
    IF a \notin stopHolders THEN 0
    ELSE IF a = "driver" THEN driver.seen
    ELSE IF a = "watcher" THEN closes
    ELSE 0

\* C13 as stated: when the process has shut down, each of the three
\* activities (watcher, metrics endpoint, Driver) has observed the one
\* termination event, exactly once.
C13_AllThreeObserve ==
    exit = "return" => \A a \in Activities : Observations(a) = 1

\* C13, amended: stopChan is handed to the watcher, which closes it, and to
\* the Driver, which waits on it; the metrics endpoint is never handed it and
\* observes no termination event. Of the activities that hold the channel
\* none misses the closure and none sees it twice: once stopChan is closed the
\* Driver sees it at a stop check, exactly once, and the watcher has made the
\* transition exactly once.
C13_HoldersObserveOnce ==
    /\ [](stopHolders \subseteq {"watcher", "driver"})
    /\ [](\A a \in Activities : Observations(a) <= 1)
    /\ [](driver.seen = 1 => (stopChan = "closed" /\ Observations("watcher") = 1))
    /\ [](exit = "return" =>
             /\ Observations("driver") = 1
             /\ Observations("watcher") = 1
             /\ Observations("metrics") = 0)
    /\ (stopChan = "closed") ~> (Observations("driver") = 1)

C13_Witness ==
    /\ exit = "return"
    /\ metrics = "serving"
    /\ driver.seen = 1
    /\ stopHolders = {"watcher", "driver"}

CoordinatorLaunched ==
    \/ stopChan # "none" \/ notified \/ watcher # "none"
    \/ metrics # "none" \/ driver.phase # "none"

\* C14: start-up runs in the order credential resolution, config load,
\* validation, coordinator launch, each step only after the one before it
\* succeeded; when credential resolution fails the config file is neither
\* opened nor decoded.
C14_StartupOrder ==
    /\ fileOpens <= 1 /\ decodes <= 1
    /\ fileOpens > 0 => (Len(credCalls) = 1 /\ k8sClient # None /\ env.credsOK)
    /\ decodes > 0 => (fileOpens = 1 /\ env.file.readable)
    /\ validated # <<>> => (decodes = 1 /\ env.file.wellFormed /\ nodegroups = Entries)
    /\ (opts # None \/ CoordinatorLaunched) =>
          (decodes = 1 /\ env.file.wellFormed /\ validated = NamesOf(Entries) /\ Offending = {})
    /\ CoordinatorLaunched => opts # None
    /\ ~env.credsOK =>
          (fileOpens = 0 /\ decodes = 0 /\ validated = <<>> /\ ~CoordinatorLaunched)

C14_Witness ==
    /\ ~env.credsOK
    /\ Len(credCalls) = 1
    /\ exit = "fatal"
    /\ env.file.readable

\* the coordinator's state, read off the events that define it: launch of
\* watcher and metrics endpoint, close of stopChan, return of the Driver
LifecycleState ==
    IF driver.phase = "returned" THEN "Stopped"
    ELSE IF stopChan = "closed" THEN "ShuttingDown"
    ELSE IF watcher # "none" /\ metrics # "none" THEN "Running"
    ELSE "Starting"

\* C15 as stated: the lifecycle state changes only from Starting to Running,
\* from Running to ShuttingDown and from ShuttingDown to Stopped, so that
\* stopChan is closed only in state Running.
C15_StrictLifecycle ==
    [][LifecycleState' # LifecycleState =>
          <<LifecycleState, LifecycleState'>> \in
              {<<"Starting", "Running">>, <<"Running", "ShuttingDown">>,
               <<"ShuttingDown", "Stopped">>}]_vars

\* C15, amended: the lifecycle state moves along Starting, Running,
\* ShuttingDown, Stopped, except that Running is skipped when stopChan is
\* closed while the state is still Starting (the watcher runs before the
\* metrics endpoint is launched). ShuttingDown is entered, from Starting or
\* Running, by the step in which the watcher closes stopChan and finishes;
\* Stopped is entered from ShuttingDown only, on Driver return; nothing
\* leaves Stopped.
C15_LifecycleWithEarlyClose ==
    /\ [][LifecycleState' # LifecycleState =>
             <<LifecycleState, LifecycleState'>> \in
                 {<<"Starting", "Running">>, <<"Starting", "ShuttingDown">>,
                  <<"Running", "ShuttingDown">>, <<"ShuttingDown", "Stopped">>}]_vars
    /\ [][(LifecycleState # "ShuttingDown" /\ LifecycleState' = "ShuttingDown") =>
             (watcher = "close" /\ watcher' = "done" /\ closes' = closes + 1)]_vars
    /\ [][(LifecycleState # "Running" /\ LifecycleState' = "Running") =>
             (watcher # "none" /\ metrics = "none" /\ metrics' # "none")]_vars
    /\ [][(LifecycleState # "Stopped" /\ LifecycleState' = "Stopped") =>
             (driver.phase # "returned" /\ driver'.phase = "returned")]_vars
    /\ [][LifecycleState = "Stopped" => LifecycleState' = "Stopped"]_vars
    /\ [](watcher = "done" => LifecycleState \in {"ShuttingDown", "Stopped"})

C15_Witness ==
    /\ LifecycleState = "ShuttingDown"
    /\ metrics = "none"
    /\ watcher = "done"

\* C16: stopChan is written by the watcher only: the one write ever made on
\* it is the watcher's close; nothing is sent on it and neither main, the
\* metrics launch nor the Driver hand-off closes it.
C16_OnlyWatcherWrites ==
    /\ \A i \in DOMAIN stopWrites : stopWrites[i] = [by |-> "watcher", op |-> "close"]
    /\ Len(stopWrites) <= 1
    /\ Len(stopWrites) = closes
    /\ stopChan = "closed" <=> Len(stopWrites) = 1
    /\ exit # "panic"

C16_Witness ==
    /\ stopWrites = <<[by |-> "watcher", op |-> "close"]>>
    /\ exit = "return"
    /\ metrics # "none"

\* C17: a SIGINT/SIGTERM delivered once signal.Notify has registered the
\* channel is not lost: until the watcher receives it, it is held in the
\* capacity-1 signalChan, also when it comes before the watcher goroutine
\* runs or before the Driver is invoked; the watcher then closes stopChan, and
\* the Driver, started before or after the close, sees it closed and returns.
C17_SignalAfterNotifyNotLost ==
    /\ []((notified /\ delivered >= 1 /\ watcher \in {"none", "recv"}) =>
             (Len(signalChan) = 1 /\ Head(signalChan) \in Signals))
    /\ []((notified /\ delivered >= 1) => exit \in {"none", "return"})
    /\ (notified /\ delivered >= 1) ~> (stopChan = "closed")
    /\ (notified /\ delivered >= 1) ~> (driver.phase = "returned" /\ exit = "return")

C17_Witness ==
    /\ stopChan = "closed"
    /\ driver.phase = "constructed"
    /\ delivered = 1
====
